---- MODULE Spec2Model ----
(***************************************************************************)
(* Model of dive_profile_calculator/profile.py.                            *)
(*                                                                         *)
(* Number representation.  Python floats are modelled as exact fixed-point *)
(* integers: depths, consumptions, gas volumes and gas pressures in        *)
(* 1/Scale of their unit, water density in 1/DensityScale kg/m^3, gravity  *)
(* in 1/GravityScale m/s^2, ambient pressure in 1/PressureScale bar.       *)
(* datetime.timedelta values are integers of microseconds, as in Python.   *)
(* The inputs are drawn from grids on which every division of the code is  *)
(* exact, so no rounding is hidden.                                        *)
(***************************************************************************)
EXTENDS Integers, Sequences, FiniteSets, TLC

----------------------------------------------------------------------------
(* Bounds of the model *)

MaxPoints == 3          \* longest point list handed to the constructor / from_dict
MaxDepthSteps == 14     \* ascent depths range over half metres up to MaxDepthSteps / 2 m
MaxGueIters == 12       \* cap on the iterations of the GUE stop loop

----------------------------------------------------------------------------
(* Representation of float and timedelta *)

Scale == 100
DensityScale == 10
GravityScale == 100000
PressureScale == 100000000
MicrosPerSecond == 1000000
MicrosPerMinute == 60 * MicrosPerSecond

\* mutant: the key taken as milliseconds
timedelta_seconds_Millis(n) == n * 1000

\* dt.timedelta(seconds=n) for an int n
timedelta_seconds(n) == n * MicrosPerSecond

\* dt.timedelta(minutes=num/den).  Every call of the program has a den that
\* divides MicrosPerMinute, so the result is a whole number of microseconds.
timedelta_minutes(num, den) == num * (MicrosPerMinute \div den)

\* np.ceil(num/den) for den > 0
np_ceil(num, den) == -((-num) \div den)

\* np.average([a, b])
np_average(a, b) == (a + b) \div 2

\* A number of the input mapping: a Python int, or a float in 1/scale units.
PyInt(n) == [t |-> "int", v |-> n]
PyFloat(v) == [t |-> "float", v |-> v]
Absent == [t |-> "absent", v |-> 0]

\* float(x), in 1/scale units
float(x, scale) == IF x.t = "int" THEN x.v * scale ELSE x.v

----------------------------------------------------------------------------
(* Program constants *)

DEFAULT_CONSUMPTION == 15
DEFAULT_WATER_DENSITY == 10236      \* 1023.6 kg/m^3, in 1/DensityScale
DEFAULT_GRAVITY_CONSTANT == 980665  \* 9.80665 m/s^2, in 1/GravityScale
PA_PER_BAR == 100000                \* the 1e-5 factor of ambient_pressure
SSI_ascent_rate == 10
SSI_stop_duration == 3
SSI_stop_depth == 6
GUE_deep_ascent_rate == 10
GUE_shallow_ascent_rate == 6
GUE_stop_duration_den == 2          \* stop_duration = 0.5 min = 1/2 min

----------------------------------------------------------------------------
(* Data classes *)

DiveProfilePoint(d, ts, c) == [depth |-> d, timestamp |-> ts, consumption |-> c]

DiveProfileSegment(ad, dur, ac) ==
    [avg_depth |-> ad, duration |-> dur, avg_consumption |-> ac]

DiverConfiguration(gv, gp, c, wd, g) ==
    [gas_volume |-> gv, gas_pressure |-> gp, consumption |-> c,
     water_density |-> wd, gravity_constant |-> g]

DiveProfile(gv, gp, pts, wd, g) ==
    [gas_volume |-> gv, gas_pressure |-> gp, profile |-> pts,
     water_density |-> wd, gravity_constant |-> g]

\* mutant: the end point's depth instead of the mean
from_profile_points_NoMean(first, second) ==
    DiveProfileSegment(second.depth,
                       second.timestamp - first.timestamp,
                       np_average(first.consumption, second.consumption))

\* DiveProfileSegment.from_profile_points
from_profile_points(first, second) ==
    DiveProfileSegment(np_average(first.depth, second.depth),
                       second.timestamp - first.timestamp,
                       np_average(first.consumption, second.consumption))

----------------------------------------------------------------------------
(* Pure methods of DiveProfile *)

\* mutant: the atmospheric bar is left out
ambient_pressure_NoAtmosphere(self, depth_) ==
    LET gh == self.gravity_constant \div PA_PER_BAR
        gl == self.gravity_constant % PA_PER_BAR
        lo == self.water_density * gl
        K1 == self.water_density * gh + lo \div PA_PER_BAR
        K0 == lo % PA_PER_BAR
    IN  K1 * depth_ + (K0 * depth_) \div PA_PER_BAR

\* DiveProfile.ambient_pressure: (water_density * gravity_constant * depth) * 1e-5 + 1,
\* in 1/PressureScale bar.  K = water_density * gravity_constant is kept as
\* K1 * PA_PER_BAR + K0 so that no intermediate product exceeds 32 bits.
ambient_pressure(self, depth_) ==
    LET gh == self.gravity_constant \div PA_PER_BAR
        gl == self.gravity_constant % PA_PER_BAR
        lo == self.water_density * gl
        K1 == self.water_density * gh + lo \div PA_PER_BAR
        K0 == lo % PA_PER_BAR
    IN  K1 * depth_ + (K0 * depth_) \div PA_PER_BAR + PressureScale

\* DiveProfile.get_segments
get_segments(self) ==
    [idx \in 1..(Len(self.profile) - 1) |->
        from_profile_points(self.profile[idx], self.profile[idx + 1])]

\* sorted(points, key=lambda x: x.timestamp): a stable sort
RECURSIVE insert_by_timestamp(_, _)
insert_by_timestamp(sortedPts, p) ==
    IF sortedPts = <<>> THEN <<p>>
    ELSE IF Head(sortedPts).timestamp <= p.timestamp
         THEN <<Head(sortedPts)>> \o insert_by_timestamp(Tail(sortedPts), p)
         ELSE <<p>> \o sortedPts

\* mutant: the points are left in iteration order
sorted_by_timestamp_Unsorted(pts) == pts

RECURSIVE sorted_by_timestamp(_)
sorted_by_timestamp(pts) ==
    IF pts = <<>> THEN <<>>
    ELSE insert_by_timestamp(sorted_by_timestamp(SubSeq(pts, 1, Len(pts) - 1)),
                             pts[Len(pts)])

\* profile_schema.validate: the required keys are present; the optional keys
\* get their defaults
schema_valid(data) == data.gas_volume.t # "absent" /\ data.gas_pressure.t # "absent"

schema_validate(data) ==
    [data EXCEPT
        !.water_density = IF @.t = "absent" THEN PyFloat(DEFAULT_WATER_DENSITY) ELSE @,
        !.gravity_constant = IF @.t = "absent" THEN PyFloat(DEFAULT_GRAVITY_CONSTANT) ELSE @]

\* DiveProfile.from_dict, for data that passes the schema
from_dict(data) ==
    LET valid_data == schema_validate(data)
        profile_data == valid_data.profile
        profile_points ==
            [i \in 1..Len(profile_data) |->
                DiveProfilePoint(float(profile_data[i].depth, Scale),
                                 timedelta_seconds(profile_data[i].key),
                                 float(profile_data[i].consumption, Scale))]
    IN  DiveProfile(float(valid_data.gas_volume, Scale),
                    float(valid_data.gas_pressure, Scale),
                    sorted_by_timestamp(profile_points),
                    float(valid_data.water_density, DensityScale),
                    float(valid_data.gravity_constant, GravityScale))

\* mutant: the leg to the safety stop is clamped to a non-negative duration
compute_ssi_ascent_Clamped(depth_, configuration) ==
    LET stop_depth == SSI_stop_depth * Scale
        leg == IF depth_ > stop_depth THEN depth_ - stop_depth ELSE 0
        t1 == timedelta_minutes(leg, SSI_ascent_rate * Scale)
        t2 == t1 + timedelta_minutes(SSI_stop_duration, 1)
        t3 == t2 + timedelta_minutes(stop_depth, SSI_ascent_rate * Scale)
    IN  << DiveProfilePoint(depth_, 0, configuration.consumption),
           DiveProfilePoint(stop_depth, t1, configuration.consumption),
           DiveProfilePoint(stop_depth, t2, configuration.consumption),
           DiveProfilePoint(0, t3, configuration.consumption) >>

\* DiveProfile.compute_ssi_ascent, for depth > 0
compute_ssi_ascent(depth_, configuration) ==
    LET ascent_rate == SSI_ascent_rate
        stop_duration == SSI_stop_duration
        stop_depth == SSI_stop_depth * Scale
        t0 == timedelta_seconds(0)
        t1 == t0 + timedelta_minutes(depth_ - stop_depth, ascent_rate * Scale)
        t2 == t1 + timedelta_minutes(stop_duration, 1)
        t3 == t2 + timedelta_minutes(stop_depth, ascent_rate * Scale)
    IN  << DiveProfilePoint(depth_, t0, configuration.consumption),
           DiveProfilePoint(stop_depth, t1, configuration.consumption),
           DiveProfilePoint(stop_depth, t2, configuration.consumption),
           DiveProfilePoint(0, t3, configuration.consumption) >>

\* mutant: the guard accepts depth 0
trivial_ascent_Negative(depth_) == depth_ < 0

\* `if depth <= 0: raise RuntimeError('Trivial ascent')`, in both planners
trivial_ascent(depth_) == depth_ <= 0

\* mutant: depth 3 is taken as a shallow start
gue_shallow_start_Inclusive(starting_depth) == starting_depth <= 3 * Scale

\* compute_gue_ascent: `if starting_depth < 3`
gue_shallow_start(starting_depth) == starting_depth < 3 * Scale

\* mutant: the depth itself, not its half, rounded up to a multiple of 3
gue_first_stop_WholeDepth(depth_) == np_ceil(depth_, 3 * Scale) * 3 * Scale

\* mutant: one stop too deep
gue_first_stop_ExtraStop(depth_) == (np_ceil(depth_, 6 * Scale) + 1) * 3 * Scale

\* compute_gue_ascent: the first stop depth, np.ceil(depth / 6) * 3.
gue_first_stop(depth_) == np_ceil(depth_, 6 * Scale) * 3 * Scale

\* mutant: the stops are 1 m apart
gue_next_stop_OneMetre(depth_) == depth_ - Scale

\* compute_gue_ascent: `depth -= 3`
gue_next_stop(depth_) == depth_ - 3 * Scale

----------------------------------------------------------------------------
(* Inputs *)

ConfigSet ==
    { DiverConfiguration(12 * Scale, 232 * Scale, c * Scale,
                         DEFAULT_WATER_DENSITY, DEFAULT_GRAVITY_CONSTANT) :
        c \in {DEFAULT_CONSUMPTION, 20} }

DefaultConfiguration ==
    DiverConfiguration(12 * Scale, 232 * Scale, DEFAULT_CONSUMPTION * Scale,
                       DEFAULT_WATER_DENSITY, DEFAULT_GRAVITY_CONSTANT)

\* starting depths of the ascents: half metres from -1 m on, and 30 m
AscentDepths == { k * (Scale \div 2) : k \in (-2)..MaxDepthSteps } \cup { 30 * Scale }

\* depths handed to ambient_pressure
PressureDepths == { m * Scale : m \in {-10, 0, 10, 20, 30, 40, 50} } \cup { 1, Scale \div 2 }

\* (water_density, gravity_constant) other than the defaults
OtherEnvironment == <<1000 * DensityScale, 98 * (GravityScale \div 10)>>

\* points handed to the constructor
PointSet ==
    { DiveProfilePoint(0, timedelta_seconds(0), 15 * Scale),
      DiveProfilePoint(10 * Scale, timedelta_seconds(60), 20 * Scale),
      DiveProfilePoint(10 * Scale, timedelta_seconds(0), 20 * Scale) }

PointLists == UNION { [1..n -> PointSet] : n \in 0..MaxPoints }

\* arguments of the constructor: every point list with the default environment,
\* and two point lists with another one
ConstructorArgs ==
    { <<pts, <<DEFAULT_WATER_DENSITY, DEFAULT_GRAVITY_CONSTANT>> >> : pts \in PointLists }
    \cup { <<pts, OtherEnvironment>> : pts \in { l \in PointLists : Len(l) = 0 \/ Len(l) = 2 } }

\* the 'profile' mapping of from_dict's input, as its items in iteration order
KeySet == {0, 60, 120}

EntrySet == { [depth |-> PyInt(10), consumption |-> PyInt(15)],
              [depth |-> PyFloat(550), consumption |-> PyFloat(1750)] }

Item(k, e) == [key |-> k, depth |-> e.depth, consumption |-> e.consumption]

MaxKeys == IF MaxPoints < Cardinality(KeySet) THEN MaxPoints ELSE Cardinality(KeySet)

ProfileMappings ==
    UNION { { [i \in 1..n |-> Item(ks[i], es[i])] :
                ks \in { f \in [1..n -> KeySet] : \A i, j \in 1..n : i # j => f[i] # f[j] },
                es \in [1..n -> EntrySet] } :
            n \in 0..MaxKeys }

\* the mapping of test_load_profile
TestProfileMapping ==
    << Item(0, [depth |-> PyInt(0), consumption |-> PyInt(15)]),
       Item(60, [depth |-> PyInt(10), consumption |-> PyInt(15)]),
       Item(120, [depth |-> PyInt(0), consumption |-> PyInt(15)]) >>

Data(gv, gp, wd, g, prof) ==
    [gas_volume |-> gv, gas_pressure |-> gp, water_density |-> wd,
     gravity_constant |-> g, profile |-> prof]

\* inputs of from_dict: every profile mapping with the test's gas loadout, the
\* test's mapping with other loadouts and environments, and inputs that lack a
\* required key
DataSet ==
    { Data(PyInt(12), PyInt(232), Absent, Absent, prof) :
        prof \in ProfileMappings \cup {TestProfileMapping} }
    \cup { Data(gv, PyInt(232), wd, g, TestProfileMapping) :
             gv \in {PyInt(12), PyFloat(1250)},
             wd \in {Absent, PyInt(1000), PyFloat(DEFAULT_WATER_DENSITY)},
             g \in {Absent, PyFloat(98 * (GravityScale \div 10))} }
    \cup { Data(Absent, PyInt(232), Absent, Absent, TestProfileMapping),
           Data(PyInt(12), Absent, Absent, Absent, <<>>) }

NoData == [gas_volume |-> Absent, gas_pressure |-> Absent, water_density |-> Absent,
           gravity_constant |-> Absent, profile |-> <<>>]

NoProfile == DiveProfile(0, 0, <<>>, 0, 0)

----------------------------------------------------------------------------
(* State *)

VARIABLES
    dp,             \* the DiveProfile object most recently constructed
    dp_src,         \* how dp was made: "none", "ctor" or "from_dict"
    op,             \* the most recent call
    outcome,        \* "none", "ok", "error" or "running"
    data,           \* argument of the most recent from_dict call
    arg_depth,      \* depth argument of the most recent ascent / ambient_pressure call
    configuration,  \* configuration argument of the most recent ascent call
    points,         \* value returned by the most recent ascent call
    segments,       \* value returned by the most recent get_segments call
    pressure,       \* value returned by the most recent ambient_pressure call
    pc,             \* position inside compute_gue_ascent: "idle" or "loop"
    depth,          \* local of compute_gue_ascent
    current_time,   \* local of compute_gue_ascent
    profile,        \* local of compute_gue_ascent
    iters           \* iterations of the stop loop that were run

vars == <<dp, dp_src, op, outcome, data, arg_depth, configuration, points, segments,
          pressure, pc, depth, current_time, profile, iters>>

Init ==
    /\ dp = NoProfile
    /\ dp_src = "none"
    /\ op = "none"
    /\ outcome = "none"
    /\ data = NoData
    /\ arg_depth = 0
    /\ configuration = DefaultConfiguration
    /\ points = <<>>
    /\ segments = <<>>
    /\ pressure = 0
    /\ pc = "idle"
    /\ depth = 0
    /\ current_time = 0
    /\ profile = <<>>
    /\ iters = 0

\* what a call leaves behind: its name, outcome, arguments and return value
Returns(o, out, dat, ad, c, pts, segs, pr) ==
    /\ op' = o
    /\ outcome' = out
    /\ data' = dat
    /\ arg_depth' = ad
    /\ configuration' = c
    /\ points' = pts
    /\ segments' = segs
    /\ pressure' = pr

GueIdle ==
    /\ pc' = "idle"
    /\ depth' = 0
    /\ current_time' = 0
    /\ profile' = <<>>
    /\ iters' = 0

----------------------------------------------------------------------------
(* Operations *)

\* DiveProfile(gas_volume, gas_pressure, profile, water_density, gravity_constant):
\* the generated dataclass constructor stores its arguments
Construct(pts, env) ==
    /\ pc = "idle"
    /\ dp' = DiveProfile(12 * Scale, 232 * Scale, pts, env[1], env[2])
    /\ dp_src' = "ctor"
    /\ Returns("ctor", "ok", NoData, 0, DefaultConfiguration, <<>>, <<>>, 0)
    /\ GueIdle

\* DiveProfile.from_dict(data)
FromDict(d) ==
    /\ pc = "idle"
    /\ IF schema_valid(d)
       THEN /\ dp' = from_dict(d)
            /\ dp_src' = "from_dict"
            /\ Returns("from_dict", "ok", d, 0, DefaultConfiguration, <<>>, <<>>, 0)
       ELSE /\ UNCHANGED <<dp, dp_src>>
            /\ Returns("from_dict", "error", d, 0, DefaultConfiguration, <<>>, <<>>, 0)
    /\ GueIdle

\* dp.get_segments()
GetSegments ==
    /\ pc = "idle"
    /\ dp_src # "none"
    /\ Returns("get_segments", "ok", NoData, 0, DefaultConfiguration, <<>>,
               get_segments(dp), 0)
    /\ GueIdle
    /\ UNCHANGED <<dp, dp_src>>

\* dp.ambient_pressure(depth)
AmbientPressure(d) ==
    /\ pc = "idle"
    /\ dp_src # "none"
    /\ Returns("ambient_pressure", "ok", NoData, d, DefaultConfiguration, <<>>, <<>>,
               ambient_pressure(dp, d))
    /\ GueIdle
    /\ UNCHANGED <<dp, dp_src>>

\* DiveProfile.compute_ssi_ascent(depth, configuration)
ComputeSsiAscent(d, c) ==
    /\ pc = "idle"
    /\ IF trivial_ascent(d)
       THEN Returns("ssi", "error", NoData, d, c, <<>>, <<>>, 0)
       ELSE Returns("ssi", "ok", NoData, d, c, compute_ssi_ascent(d, c), <<>>, 0)
    /\ GueIdle
    /\ UNCHANGED <<dp, dp_src>>

\* DiveProfile.compute_gue_ascent(depth, configuration), up to the stop loop
ComputeGueAscent(d, c) ==
    /\ pc = "idle"
    /\ IF trivial_ascent(d)
       THEN /\ Returns("gue", "error", NoData, d, c, <<>>, <<>>, 0)
            /\ GueIdle
       ELSE LET start == DiveProfilePoint(d, timedelta_seconds(0), c.consumption)
                shallow_ascent_rate == GUE_shallow_ascent_rate
                deep_ascent_rate == GUE_deep_ascent_rate
                start_time == timedelta_seconds(0)
            IN  IF gue_shallow_start(d)
                THEN /\ Returns("gue", "ok", NoData, d, c,
                                << start,
                                   DiveProfilePoint(0,
                                       start_time + timedelta_minutes(d, shallow_ascent_rate * Scale),
                                       c.consumption) >>,
                                <<>>, 0)
                     /\ GueIdle
                ELSE LET stop == gue_first_stop(d)
                         t == start_time + timedelta_minutes(d - stop, deep_ascent_rate * Scale)
                     IN  /\ Returns("gue", "running", NoData, d, c, <<>>, <<>>, 0)
                         /\ pc' = "loop"
                         /\ depth' = stop
                         /\ current_time' = t
                         /\ profile' = << start, DiveProfilePoint(stop, t, c.consumption) >>
                         /\ iters' = 0
    /\ UNCHANGED <<dp, dp_src>>

\* one iteration of `while depth > 0`
GueLoop ==
    /\ pc = "loop"
    /\ depth > 0
    /\ iters < MaxGueIters
    /\ LET t1 == current_time + timedelta_minutes(1, GUE_stop_duration_den)
           d2 == gue_next_stop(depth)
           t2 == t1 + timedelta_minutes(3, GUE_shallow_ascent_rate)
       IN  /\ profile' = profile \o << DiveProfilePoint(depth, t1, configuration.consumption),
                                       DiveProfilePoint(d2, t2, configuration.consumption) >>
           /\ depth' = d2
           /\ current_time' = t2
    /\ iters' = iters + 1
    /\ UNCHANGED <<dp, dp_src, op, outcome, data, arg_depth, configuration, points,
                   segments, pressure, pc>>

\* the loop condition fails: return profile
GueReturn ==
    /\ pc = "loop"
    /\ ~(depth > 0)
    /\ points' = profile
    /\ outcome' = "ok"
    /\ pc' = "idle"
    /\ UNCHANGED <<dp, dp_src, op, data, arg_depth, configuration, segments, pressure,
                   depth, current_time, profile, iters>>

Next ==
    \/ \E a \in ConstructorArgs : Construct(a[1], a[2])
    \/ \E d \in DataSet : FromDict(d)
    \/ GetSegments
    \/ \E d \in PressureDepths : AmbientPressure(d)
    \/ \E d \in AscentDepths, c \in ConfigSet : ComputeSsiAscent(d, c)
    \/ \E d \in AscentDepths, c \in ConfigSet : ComputeGueAscent(d, c)
    \/ GueLoop
    \/ GueReturn

Spec == Init /\ [][Next]_vars

\* a call that was started runs to its return
FairSpec == Spec /\ WF_vars(GueLoop) /\ WF_vars(GueReturn)

----------------------------------------------------------------------------
(* Properties *)

\* the points emitted so far by the most recent compute_gue_ascent call
GuePoints == IF outcome = "ok" THEN points ELSE profile

StrictlySorted(pts) ==
    \A i \in 1..(Len(pts) - 1) : pts[i].timestamp < pts[i + 1].timestamp

\* C1: compute_ssi_ascent and compute_gue_ascent raise 'Trivial ascent' exactly
\* when depth <= 0, and a call that raises has produced no point.
C1_TrivialAscent ==
    op \in {"ssi", "gue"} =>
        /\ (arg_depth <= 0) <=> (outcome = "error")
        /\ outcome = "error" => (points = <<>> /\ profile = <<>> /\ pc = "idle")

C1_Witness == op = "ssi" /\ arg_depth = 0 /\ outcome = "error"

\* C2: for every depth > 0, compute_ssi_ascent returns 4 points with depths
\* [depth, 6, 6, 0] at [0, (depth-6)/10, +3, +0.6] minutes, each carrying the
\* configuration's consumption; for depth 30 the times are 0, 2.4, 5.4, 6.0 min.
C2_SsiAscent ==
    (op = "ssi" /\ arg_depth > 0) =>
        /\ outcome = "ok"
        /\ Len(points) = 4
        /\ [i \in 1..4 |-> points[i].depth] = <<arg_depth, 6 * Scale, 6 * Scale, 0>>
        /\ points[1].timestamp = 0
        \* (depth - 6) / 10 minutes: one 1/Scale metre takes 60 s / (10 * Scale)
        /\ points[2].timestamp = (arg_depth - 6 * Scale) * ((60 * MicrosPerSecond) \div (10 * Scale))
        /\ points[3].timestamp = points[2].timestamp + 180 * MicrosPerSecond
        /\ points[4].timestamp = points[3].timestamp + 36 * MicrosPerSecond
        /\ \A i \in 1..4 : points[i].consumption = configuration.consumption
        /\ arg_depth = 30 * Scale =>
             [i \in 1..4 |-> points[i].timestamp] =
                 <<0, 144 * MicrosPerSecond, 324 * MicrosPerSecond, 360 * MicrosPerSecond>>

C2_Witness ==
    /\ op = "ssi" /\ outcome = "ok"
    /\ arg_depth > 0 /\ arg_depth < 6 * Scale
    /\ points[2].timestamp < 0
    /\ configuration.consumption # DEFAULT_CONSUMPTION * Scale

\* C3: for 0 < depth < 3, compute_gue_ascent returns the start point and a
\* surface point at depth/6 minutes with the configuration's consumption and
\* never enters the stop loop; at depth 3 the general case is taken.
C3_GueShallow ==
    /\ (op = "gue" /\ 0 < arg_depth /\ arg_depth < 3 * Scale) =>
        /\ outcome = "ok" /\ pc = "idle" /\ iters = 0
        /\ Len(points) = 2
        /\ points[1] = DiveProfilePoint(arg_depth, 0, configuration.consumption)
        /\ points[2].depth = 0
        /\ points[2].timestamp * 6 = arg_depth * ((60 * MicrosPerSecond) \div Scale)
        /\ points[2].consumption = configuration.consumption
    /\ (op = "gue" /\ arg_depth = 3 * Scale) =>
        /\ outcome \in {"running", "ok"}
        /\ outcome = "ok" => (iters >= 1 /\ Len(points) > 2)

C3_Witness ==
    /\ op = "gue" /\ outcome = "ok" /\ arg_depth = 3 * (Scale \div 2)
    /\ points[2].timestamp = 15 * MicrosPerSecond

\* C4: for depth >= 3 the stop loop of compute_gue_ascent runs at most
\* ceil(depth/6)+1 iterations, the call returns, and the last point it emits
\* has depth <= 0.
C4_GueTerminates ==
    /\ []((op = "gue" /\ arg_depth >= 3 * Scale) =>
            /\ iters <= np_ceil(arg_depth, 6 * Scale) + 1
            /\ outcome = "ok" => points[Len(points)].depth <= 0)
    /\ (pc = "loop") ~> (pc = "idle" /\ op = "gue" /\ outcome = "ok")

C4_Witness ==
    /\ op = "gue" /\ outcome = "ok" /\ arg_depth = 30 * Scale
    /\ iters = 5 /\ points[Len(points)].depth = 0

\* C5: get_segments returns max(N-1, 0) segments for an N-point profile, the
\* i-th built from (profile[i], profile[i+1]): mean depth, mean consumption,
\* timestamp difference.
C5_Segments ==
    op = "get_segments" =>
        /\ outcome = "ok"
        /\ Len(segments) = (IF Len(dp.profile) >= 1 THEN Len(dp.profile) - 1 ELSE 0)
        /\ \A i \in 1..Len(segments) :
             /\ 2 * segments[i].avg_depth = dp.profile[i].depth + dp.profile[i + 1].depth
             /\ 2 * segments[i].avg_consumption =
                    dp.profile[i].consumption + dp.profile[i + 1].consumption
             /\ segments[i].duration = dp.profile[i + 1].timestamp - dp.profile[i].timestamp

C5_Witness ==
    /\ op = "get_segments" /\ Len(dp.profile) = 3 /\ Len(segments) = 2
    /\ segments[1].avg_depth # segments[2].avg_depth
    /\ segments[1].avg_depth # dp.profile[1].depth
    /\ segments[1].avg_depth # dp.profile[2].depth

InputValue(x, scale) == IF x.t = "float" THEN x.v ELSE scale * x.v

\* C7: for a well-formed mapping from_dict returns a DiveProfile with the
\* input's gas_volume and gas_pressure, one point per key of 'profile'
\* (timestamp = key seconds, its depth and consumption) in ascending timestamp
\* order whatever the iteration order, and the defaults 1023.6 and 9.80665 for
\* an omitted water_density and gravity_constant.
C7_FromDict ==
    (op = "from_dict" /\ schema_valid(data)) =>
        /\ outcome = "ok" /\ dp_src = "from_dict"
        /\ dp.gas_volume = InputValue(data.gas_volume, Scale)
        /\ dp.gas_pressure = InputValue(data.gas_pressure, Scale)
        /\ Len(dp.profile) = Len(data.profile)
        /\ \A i \in 1..Len(data.profile) :
             \E j \in 1..Len(dp.profile) :
                /\ dp.profile[j].timestamp = data.profile[i].key * MicrosPerSecond
                /\ dp.profile[j].depth = InputValue(data.profile[i].depth, Scale)
                /\ dp.profile[j].consumption = InputValue(data.profile[i].consumption, Scale)
        /\ \A j \in 1..(Len(dp.profile) - 1) :
             dp.profile[j].timestamp <= dp.profile[j + 1].timestamp
        /\ data.water_density = Absent => dp.water_density = 10236
        /\ data.gravity_constant = Absent => dp.gravity_constant = 980665
        /\ data.water_density # Absent =>
             dp.water_density = InputValue(data.water_density, DensityScale)
        /\ data.gravity_constant # Absent =>
             dp.gravity_constant = InputValue(data.gravity_constant, GravityScale)

C7_Witness ==
    /\ op = "from_dict" /\ outcome = "ok"
    /\ Len(data.profile) = 3
    /\ data.profile[1].key > data.profile[2].key
    /\ data.water_density = Absent /\ data.gravity_constant = Absent
    /\ dp.profile[1].timestamp = 0 /\ dp.profile[3].timestamp = 120 * MicrosPerSecond

\* the values of test_depth_calculation, in 1/PressureScale bar
PressureTable ==
    [d \in {10, 20, 30, 40, 50} |->
        CASE d = 10 -> 200380869
          [] d = 20 -> 300761739
          [] d = 30 -> 401142608
          [] d = 40 -> 501523478
          [] d = 50 -> 601904347]

Abs(x) == IF x < 0 THEN -x ELSE x

\* C8: ambient_pressure(depth) = water_density * gravity_constant * depth * 1e-5 + 1:
\* exactly 1 bar at depth 0, strictly increasing in depth, the tabulated values
\* (within 1e-6 bar) for density 1023.6 and gravity 9.80665; the call leaves
\* the profile as it was.
C8_AmbientPressure ==
    [][ op' = "ambient_pressure" =>
          /\ dp' = dp /\ dp_src' = dp_src
          /\ dp.water_density > 0 /\ dp.gravity_constant > 0
          /\ arg_depth' = 0 => pressure' = PressureScale
          /\ (op = "ambient_pressure" /\ arg_depth < arg_depth') => pressure < pressure'
          /\ (op = "ambient_pressure" /\ arg_depth > arg_depth') => pressure > pressure'
          /\ ( /\ dp.water_density = 10236 /\ dp.gravity_constant = 980665
               /\ arg_depth' \in { d * Scale : d \in DOMAIN PressureTable } ) =>
                 Abs(pressure' - PressureTable[arg_depth' \div Scale]) <= PressureScale \div 1000000
          \* 1000 kg/m^3 * 9.8 m/s^2 * 10 m = 98000 Pa = 0.98 bar
          /\ ( /\ dp.water_density = 1000 * DensityScale
               /\ dp.gravity_constant * 10 = 98 * GravityScale
               /\ arg_depth' = 10 * Scale ) => pressure' = 198000000
      ]_vars

C8_Witness ==
    /\ op = "ambient_pressure" /\ arg_depth = 50 * Scale
    /\ dp.water_density = 10236 /\ dp.gravity_constant = 980665
    /\ pressure > 6 * PressureScale

\* C9 as stated: for depth >= 3 the second point of compute_gue_ascent lies at
\* the smallest multiple of 3 m that is >= the starting depth.
C9_Original ==
    (op = "gue" /\ arg_depth >= 3 * Scale /\ outcome \in {"running", "ok"}) =>
        LET m == GuePoints[2].depth
        IN  /\ m % (3 * Scale) = 0
            /\ m >= arg_depth
            /\ m - 3 * Scale < arg_depth

\* C9 (amended): for depth >= 3 the second point of compute_gue_ascent lies at
\* the smallest multiple of 3 m that is >= half the starting depth, and is
\* reached from the start at 10 m/min.
C9_FirstStopHalfDepth ==
    (op = "gue" /\ arg_depth >= 3 * Scale /\ outcome \in {"running", "ok"}) =>
        LET m == GuePoints[2].depth
        IN  /\ m % (3 * Scale) = 0
            /\ 2 * m >= arg_depth
            /\ 2 * (m - 3 * Scale) < arg_depth
            /\ GuePoints[2].timestamp * 10 = (arg_depth - m) * ((60 * MicrosPerSecond) \div Scale)

C9_Witness ==
    /\ op = "gue" /\ outcome = "ok" /\ arg_depth = 30 * Scale
    /\ points[2].depth = 15 * Scale
    /\ points[2].timestamp = 90 * MicrosPerSecond

\* C10: for depth > 0 the points of compute_gue_ascent start at time 0, never
\* go back in time, never go deeper, never have a negative depth, and end at
\* depth exactly 0.
C10_GueWellFormed ==
    (op = "gue" /\ arg_depth > 0) =>
        /\ outcome \in {"running", "ok"}
        /\ Len(GuePoints) >= 2
        /\ GuePoints[1].timestamp = 0
        /\ GuePoints[1].depth = arg_depth
        /\ \A i \in 1..(Len(GuePoints) - 1) :
             /\ GuePoints[i].timestamp <= GuePoints[i + 1].timestamp
             /\ GuePoints[i].depth >= GuePoints[i + 1].depth
        /\ \A i \in 1..Len(GuePoints) : GuePoints[i].depth >= 0
        /\ outcome = "ok" => points[Len(points)].depth = 0

C10_Witness ==
    /\ op = "gue" /\ outcome = "ok" /\ arg_depth = 13 * (Scale \div 2)
    /\ Len(points) = 6
    /\ points[2].depth = 6 * Scale /\ points[2].timestamp > 0

====
